---- MODULE Spec2Model ----
(***************************************************************************)
(* Model of obspy.fissures.client.Client: getWaveform (the per-record      *)
(* assembly loop), getCoordinates and getPAZ.                              *)
(*                                                                         *)
(* The remote directory service (CORBA) is the environment: it supplies    *)
(* the seismogram records, the station list and the instrument response.   *)
(* The list of seismograms has a fixed length when the loop starts; the    *)
(* content of a record is drawn when the loop visits it, because the code  *)
(* never reads a record before that.                                       *)
(*                                                                         *)
(* Floating point numbers are modelled as reduced fractions <<n, d>>; on   *)
(* the descriptors enumerated here the IEEE double results of the code     *)
(* equal the exact quotients (n / 0.02 = 50 n, n / 0.1 = 10 n).            *)
(* Character strings that the code inspects character by character (the    *)
(* site code) are sequences of one-character strings.                      *)
(***************************************************************************)
EXTENDS Integers, Sequences, FiniteSets, TLC

VARIABLES byteorder, pc, op, nseis, seis, st, unpacked, stations, resp,
          ret, exc, warns, conv

\* byteorder  self.byteorder, TRUE on a little-endian host (lines 79-82)
\* pc         "idle", "loop" (inside the loop of getWaveform), "returned", "raised"
\* op         the method called
\* nseis      len(seis), the number of records the data center returned (139)
\* seis       the records the loop has visited so far, in order (143)
\* st         the Stream under construction (142, 190)
\* unpacked   the calls of unpack_steim1/2 made so far (176-183)
\* stations   the station list, station_id and datetime of _getStationObj (415-424)
\* resp       inst.the_response (291)
\* ret        the value returned to the caller, None before a return (192, 267, 303)
\* exc        the exception that left the method (153, 186, 264, 300, 426, 429)
\* warns      the warnings issued (258, 302)
\* conv       the calls of poleZeroFilter2PAZ (303)
vars == <<byteorder, pc, op, nseis, seis, st, unpacked, stations, resp,
          ret, exc, warns, conv>>

\* Bounds of the model.
MaxRecords == 2
MaxChunks == 2
MaxStations == 2
MaxStages == 2
MaxFilters == 2

\* Encoding formats of IfTimeSeries.idl named by the code.
STEIM1 == 10
STEIM2 == 11

None == [none |-> TRUE]

SeqsUpTo(S, n) == UNION {[1..k -> S] : k \in 0..n}

-----------------------------------------------------------------------------
\* Arithmetic of line 159-160 on reduced fractions.

RECURSIVE GCD(_, _)
GCD(a, b) == IF b = 0 THEN a ELSE GCD(b, a % b)

Abs(x) == IF x < 0 THEN -x ELSE x

RatNorm(r) ==
    LET g == GCD(Abs(r[1]), Abs(r[2]))
        s == IF r[2] < 0 THEN -1 ELSE 1
    IN  <<(s * r[1]) \div g, (s * r[2]) \div g>>

RatMul(a, b) == RatNorm(<<a[1] * b[1], a[2] * b[2]>>)

\* a / b, b # 0
RatDiv(a, b) == RatNorm(<<a[1] * b[2], a[2] * b[1]>>)

RECURSIVE IntPow(_, _)
IntPow(b, e) == IF e = 0 THEN 1 ELSE b * IntPow(b, e - 1)

\* pow(10, power)
Pow10(power) ==
    IF power >= 0 THEN <<IntPow(10, power), 1>> ELSE <<1, IntPow(10, -power)>>

\* pow(base, exponent): raises ZeroDivisionError for a zero base and a
\* negative exponent.
RatPow(base, exponent) ==
    IF exponent >= 0
    THEN [ok |-> TRUE,
          val |-> RatNorm(<<IntPow(base[1], exponent), IntPow(base[2], exponent)>>)]
    ELSE IF base[1] = 0
         THEN [ok |-> FALSE, val |-> <<0, 1>>]
         ELSE [ok |-> TRUE,
               val |-> RatNorm(<<IntPow(base[2], -exponent),
                                 IntPow(base[1], -exponent)>>)]

\* delta = pow(value * pow(10, power) * multi_factor, exponent)
Delta(interval) ==
    RatPow(RatMul(RatMul(interval.value, Pow10(interval.power)),
                  <<interval.multi_factor, 1>>),
           interval.exponent)

\* A plausible slip: the rate taken as 1 / delta.
SamplingRateOfInterval(num_points, delta) == RatDiv(<<1, 1>>, delta)

\* sr = sei.num_points / float(delta), delta # 0
SamplingRate(num_points, delta) == RatDiv(<<num_points, 1>>, delta)

-----------------------------------------------------------------------------
\* str.strip() of line 166.

Whitespace == {" ", "\t", "\n"}

RECURSIVE LStrip(_)
LStrip(s) ==
    IF s # <<>> /\ Head(s) \in Whitespace THEN LStrip(Tail(s)) ELSE s

RECURSIVE RStrip(_)
RStrip(s) ==
    IF s # <<>> /\ s[Len(s)] \in Whitespace
    THEN RStrip(SubSeq(s, 1, Len(s) - 1))
    ELSE s

\* A plausible slip: only trailing whitespace removed.
StripTrailing(s) == RStrip(s)

Strip(s) == RStrip(LStrip(s))

-----------------------------------------------------------------------------
\* The chunk loop of getWaveform, lines 168-186.

\* The external codec (LibMSEED.unpack_steim1/2): a deterministic function
\* of its arguments that yields num_points samples.
UnpackSteim(fn, values, num_points, swapflag) ==
    [k \in 1..num_points |-> <<fn, values, swapflag, k>>]

SwapFlag(bo, chunk) == bo # chunk.byte_order

\* A plausible slip: an unknown compression is zero-filled instead of raising.
DecompressZeroFill(bo, chunk) ==
    IF chunk.compression = STEIM2
    THEN [ok |-> TRUE, fn |-> "unpack_steim2",
          arr |-> UnpackSteim("unpack_steim2", chunk.values, chunk.num_points,
                              SwapFlag(bo, chunk))]
    ELSE IF chunk.compression = STEIM1
    THEN [ok |-> TRUE, fn |-> "unpack_steim1",
          arr |-> UnpackSteim("unpack_steim1", chunk.values, chunk.num_points,
                              SwapFlag(bo, chunk))]
    ELSE [ok |-> TRUE, fn |-> "zeros",
          arr |-> [k \in 1..chunk.num_points |-> <<"zeros", 0, FALSE, k>>]]

\* The body of the chunk loop: what is appended to data, or the raise.
Decompress(bo, chunk) ==
    IF chunk.compression = STEIM2
    THEN [ok |-> TRUE, fn |-> "unpack_steim2",
          arr |-> UnpackSteim("unpack_steim2", chunk.values, chunk.num_points,
                              SwapFlag(bo, chunk))]
    ELSE IF chunk.compression = STEIM1
    THEN [ok |-> TRUE, fn |-> "unpack_steim1",
          arr |-> UnpackSteim("unpack_steim1", chunk.values, chunk.num_points,
                              SwapFlag(bo, chunk))]
    ELSE [ok |-> FALSE, fn |-> "none", arr |-> <<>>]

CodecCall(rec, d, chunk, bo) ==
    [rec |-> rec, fn |-> d.fn, values |-> chunk.values,
     num_points |-> chunk.num_points, swapflag |-> SwapFlag(bo, chunk)]

\* A plausible slip: a chunk that cannot be decoded is skipped and the loop
\* goes on with the next chunk.
RECURSIVE DecodeChunksSkipping(_, _, _)
DecodeChunksSkipping(rec, bo, chunks) ==
    IF chunks = <<>>
    THEN [ok |-> TRUE, data |-> <<>>, calls |-> <<>>]
    ELSE LET d == Decompress(bo, Head(chunks))
             rest == DecodeChunksSkipping(rec, bo, Tail(chunks))
         IN  IF ~d.ok
             THEN rest
             ELSE [ok |-> rest.ok,
                   data |-> <<d.arr>> \o rest.data,
                   calls |-> <<CodecCall(rec, d, Head(chunks), bo)>> \o rest.calls]

\* for chunk in sei.data.encoded_values: the list of decoded arrays in the
\* order of the chunks, the codec calls made, and whether a raise ended it.
RECURSIVE DecodeChunks(_, _, _)
DecodeChunks(rec, bo, chunks) ==
    IF chunks = <<>>
    THEN [ok |-> TRUE, data |-> <<>>, calls |-> <<>>]
    ELSE LET d == Decompress(bo, Head(chunks))
         IN  IF ~d.ok
             THEN [ok |-> FALSE, data |-> <<>>, calls |-> <<>>]
             ELSE LET rest == DecodeChunks(rec, bo, Tail(chunks))
                  IN  [ok |-> rest.ok,
                       data |-> <<d.arr>> \o rest.data,
                       calls |-> <<CodecCall(rec, d, Head(chunks), bo)>>
                                     \o rest.calls]

\* A plausible slip: the arrays joined last to first.
RECURSIVE ConcatenateReversed(_)
ConcatenateReversed(data) ==
    IF data = <<>> THEN <<>> ELSE ConcatenateReversed(Tail(data)) \o Head(data)

\* np.concatenate(data), data not empty
RECURSIVE Concatenate(_)
Concatenate(data) ==
    IF data = <<>> THEN <<>> ELSE Head(data) \o Concatenate(Tail(data))

-----------------------------------------------------------------------------
\* The record loop of getWaveform, lines 143-191.

\* A plausible slip: the keep-alive test left out.
NeverKeepAlive(sei) == FALSE

IsKeepAlive(sei) == sei.num_points = 0

\* A plausible slip: any unit accepted.
AnyUnitSupported(unit) == unit \in {"SECOND", "METER"}

UnitSupported(unit) == unit = "SECOND"

\* A plausible slip: the new trace put in front of the stream.
StreamPrepend(stream, tr) == <<tr>> \o stream

\* st.append(tr)
StreamAppend(stream, tr) == Append(stream, tr)

\* The Trace of a record whose chunks decoded to data.
MakeTrace(sei, delta, data) ==
    [starttime |-> <<"UTCDateTime", sei.begin_time>>,
     npts |-> sei.num_points,
     sampling_rate |-> SamplingRate(sei.num_points, delta),
     station |-> sei.channel_id.station_code,
     network |-> sei.channel_id.network_code,
     channel |-> sei.channel_id.channel_code,
     location |-> Strip(sei.channel_id.site_code),
     data |-> Concatenate(data)]

\* One pass of the loop body over record number rec, in the order of the
\* code.  verifyOk is the outcome of the external Trace.verify().
ProcessSeismogram(rec, sei, bo, verifyOk) ==
    IF IsKeepAlive(sei)
    THEN [kind |-> "continue", exc |-> "none", calls |-> <<>>, tr |-> None]
    ELSE IF ~UnitSupported(sei.interval.unit_base)
    THEN [kind |-> "raise", exc |-> "Exception: Wrong unit!",
          calls |-> <<>>, tr |-> None]
    ELSE LET delta == Delta(sei.interval) IN
    IF ~delta.ok \/ delta.val[1] = 0
    THEN [kind |-> "raise", exc |-> "ZeroDivisionError",
          calls |-> <<>>, tr |-> None]
    ELSE LET dec == DecodeChunks(rec, bo, sei.encoded_values) IN
    IF ~dec.ok
    THEN [kind |-> "raise", exc |-> "NotImplementedError: Compression",
          calls |-> dec.calls, tr |-> None]
    ELSE IF dec.data = <<>>
    THEN [kind |-> "raise", exc |-> "ValueError: concatenate",
          calls |-> dec.calls, tr |-> None]
    ELSE IF ~verifyOk
    THEN [kind |-> "raise", exc |-> "Exception: verify",
          calls |-> dec.calls, tr |-> None]
    ELSE [kind |-> "append", exc |-> "none", calls |-> dec.calls,
          tr |-> MakeTrace(sei, delta.val, dec.data)]

-----------------------------------------------------------------------------
\* Inputs of getWaveform supplied by the seismogram data center.

Chunks ==
    { [compression |-> STEIM1, byte_order |-> FALSE, num_points |-> 1, values |-> "A"],
      [compression |-> STEIM2, byte_order |-> TRUE, num_points |-> 2, values |-> "B"],
      [compression |-> 12, byte_order |-> FALSE, num_points |-> 1, values |-> "C"] }

ChunkSeqs == SeqsUpTo(Chunks, MaxChunks)

\* A few chunk sequences: one supported chunk, one unsupported chunk, and a
\* supported chunk followed by an unsupported one.
FewChunkSeqs ==
    { s \in ChunkSeqs :
        \/ Len(s) = 1 /\ s[1].compression # STEIM2
        \/ Len(s) = 2 /\ s[1].compression = STEIM2 /\ s[2].compression = 12 }

Interval(value, unit, power, multi, exponent) ==
    [value |-> value, unit_base |-> unit, power |-> power,
     multi_factor |-> multi, exponent |-> exponent]

ChannelId(net, sta, cha, site) ==
    [network_code |-> net, station_code |-> sta, channel_code |-> cha,
     site_code |-> site]

\* Channel identity, begin time and sampling interval of a record.
Headers ==
    { [channel_id |-> ChannelId("GE", "APE", "SHZ", <<" ", " ">>), begin_time |-> "t1",
       interval |-> Interval(<<1, 50>>, "SECOND", 0, 1, 1)],
      [channel_id |-> ChannelId("GR", "GRA1", "BHZ", <<" ", "0", " ">>), begin_time |-> "t2",
       interval |-> Interval(<<1, 2>>, "SECOND", 1, 2, -1)],
      [channel_id |-> ChannelId("BW", "FUR", "EHZ", <<"0", "0">>), begin_time |-> "t1",
       interval |-> Interval(<<1, 50>>, "METER", 0, 1, 1)],
      [channel_id |-> ChannelId("GE", "APE", "SHN", <<"\t", "1">>), begin_time |-> "t2",
       interval |-> Interval(<<0, 1>>, "HERTZ", 1, 2, -1)],
      [channel_id |-> ChannelId("GR", "GRA1", "BHE", <<"1", "0", " ">>), begin_time |-> "t1",
       interval |-> Interval(<<0, 1>>, "SECOND", 0, 1, 1)] }

FirstHeader ==
    CHOOSE h \in Headers : h.channel_id.channel_code = "SHZ"

Seismogram(h, n, chunks) ==
    [num_points |-> n, begin_time |-> h.begin_time, channel_id |-> h.channel_id,
     interval |-> h.interval, encoded_values |-> chunks]

\* The records the data center may return: every chunk sequence under the
\* first header, and every header and sample count over a few chunk sequences.
Seismograms ==
    { Seismogram(FirstHeader, 2, c) : c \in ChunkSeqs }
    \cup { Seismogram(h, n, c) : h \in Headers, n \in 0..2, c \in FewChunkSeqs }

\* Inputs of getCoordinates: the stations of the network.
Locations ==
    { [type |-> "GEOGRAPHIC", latitude |-> 49, longitude |-> 11,
       elevation |-> [value |-> 499, unit |-> "METER"]],
      [type |-> "GEOGRAPHIC", latitude |-> 37, longitude |-> 25,
       elevation |-> [value |-> 1640, unit |-> "FOOT"]],
      [type |-> "CARTESIAN", latitude |-> 48, longitude |-> 12,
       elevation |-> [value |-> 565, unit |-> "METER"]],
      [type |-> "CARTESIAN", latitude |-> 47, longitude |-> 13,
       elevation |-> [value |-> 1853, unit |-> "FOOT"]] }

Stations ==
    { [station_code |-> c, start_time |-> 1, end_time |-> e, my_location |-> l] :
        c \in {"GRA1", "FUR"}, e \in {3, 9}, l \in Locations }

\* Inputs of getPAZ: the stages of the response, each a list of filters.
Filters ==
    { [d |-> "POLEZERO", v |-> "pz1"], [d |-> "POLEZERO", v |-> "pz2"],
      [d |-> "COEFFICIENT", v |-> "co"], [d |-> "LIST", v |-> "li"] }

Stages == { [filters |-> f] : f \in SeqsUpTo(Filters, MaxFilters) }

LaterStages ==
    { [filters |-> <<>>], [filters |-> <<[d |-> "POLEZERO", v |-> "pz2"]>>] }

Responses ==
    {<<>>} \cup { <<s>> \o t : s \in Stages, t \in SeqsUpTo(LaterStages, MaxStages - 1) }

-----------------------------------------------------------------------------
Init ==
    /\ byteorder \in BOOLEAN
    /\ pc = "idle"
    /\ op = "none"
    /\ nseis = 0
    /\ seis = <<>>
    /\ st = <<>>
    /\ unpacked = <<>>
    /\ stations = None
    /\ resp = None
    /\ ret = None
    /\ exc = "none"
    /\ warns = <<>>
    /\ conv = <<>>

\* getWaveform up to the loop: the data center returns n seismograms.
GetWaveformCall ==
    /\ pc = "idle"
    /\ \E n \in 0..MaxRecords : nseis' = n
    /\ pc' = "loop"
    /\ op' = "getWaveform"
    /\ UNCHANGED <<byteorder, seis, st, unpacked, stations, resp, ret, exc,
                   warns, conv>>

\* The loop body on a keep-alive record: continue.
LoopContinue ==
    /\ pc = "loop"
    /\ Len(seis) < nseis
    /\ \E sei \in Seismograms :
          LET r == ProcessSeismogram(Len(seis) + 1, sei, byteorder, TRUE)
          IN  /\ r.kind = "continue"
              /\ seis' = Append(seis, sei)
              /\ unpacked' = unpacked \o r.calls
    /\ UNCHANGED <<byteorder, pc, op, nseis, st, stations, resp, ret, exc,
                   warns, conv>>

\* The loop body on a record that yields a Trace.
LoopAppend ==
    /\ pc = "loop"
    /\ Len(seis) < nseis
    /\ \E sei \in Seismograms :
          LET r == ProcessSeismogram(Len(seis) + 1, sei, byteorder, TRUE)
          IN  /\ r.kind = "append"
              /\ seis' = Append(seis, sei)
              /\ unpacked' = unpacked \o r.calls
              /\ st' = StreamAppend(st, r.tr)
    /\ UNCHANGED <<byteorder, pc, op, nseis, stations, resp, ret, exc,
                   warns, conv>>

\* The loop body raises: the exception leaves getWaveform, nothing is
\* returned and the stream built so far is unreachable for the caller.
LoopRaise ==
    /\ pc = "loop"
    /\ Len(seis) < nseis
    /\ \E sei \in Seismograms, verifyOk \in BOOLEAN :
          LET r == ProcessSeismogram(Len(seis) + 1, sei, byteorder, verifyOk)
          IN  /\ r.kind = "raise"
              /\ seis' = Append(seis, sei)
              /\ unpacked' = unpacked \o r.calls
              /\ exc' = r.exc
    /\ pc' = "raised"
    /\ UNCHANGED <<byteorder, op, nseis, st, stations, resp, ret, warns, conv>>

\* return st
GetWaveformReturn ==
    /\ pc = "loop"
    /\ Len(seis) = nseis
    /\ ret' = st
    /\ pc' = "returned"
    /\ UNCHANGED <<byteorder, op, nseis, seis, st, unpacked, stations, resp,
                   exc, warns, conv>>

-----------------------------------------------------------------------------
\* getCoordinates, lines 240-267, with _getStationObj, lines 402-430.

\* The stations of the network that match the code and the time.
MatchingStations(stas, station_id, datetime) ==
    SelectSeq(stas, LAMBDA sta : /\ station_id = sta.station_code
                                 /\ datetime > sta.start_time
                                 /\ datetime < sta.end_time)

\* if unit != "METER": warnings.warn(...)
ElevationWarns(unit) == unit # "METER"

\* A plausible slip: an elevation in another unit rejected like a location type.
GeographicInMeters(loc) == loc.type = "GEOGRAPHIC" /\ loc.elevation.unit = "METER"

\* str(type) == "GEOGRAPHIC"
IsGeographic(loc) == loc.type = "GEOGRAPHIC"

Coordinates(loc) ==
    [elevation |-> loc.elevation.value, latitude |-> loc.latitude,
     longitude |-> loc.longitude]

\* _getStationObj raises: no station or more than one station matches.
GetCoordinatesNoStation ==
    /\ pc = "idle"
    /\ \E stas \in SeqsUpTo(Stations, MaxStations), datetime \in {2, 5} :
          LET m == MatchingStations(stas, "GRA1", datetime)
          IN  /\ Len(m) # 1
              /\ stations' = [list |-> stas, station_id |-> "GRA1", datetime |-> datetime]
              /\ exc' = IF Len(m) = 0 THEN "Exception: No data."
                                      ELSE "Exception: Server returned ambiguous data."
    /\ pc' = "raised"
    /\ op' = "getCoordinates"
    /\ UNCHANGED <<byteorder, nseis, seis, st, unpacked, resp, ret, warns, conv>>

\* getCoordinates on the one matching station.
GetCoordinates ==
    /\ pc = "idle"
    /\ \E stas \in SeqsUpTo(Stations, MaxStations), datetime \in {2, 5} :
          LET m == MatchingStations(stas, "GRA1", datetime)
          IN  /\ Len(m) = 1
              /\ stations' = [list |-> stas, station_id |-> "GRA1", datetime |-> datetime]
              /\ LET loc == m[1].my_location
                 IN  /\ warns' = IF ElevationWarns(loc.elevation.unit)
                                 THEN Append(warns, <<"Elevation not meter", loc.elevation.unit>>)
                                 ELSE warns
                     /\ IF IsGeographic(loc)
                        THEN /\ ret' = Coordinates(loc)
                             /\ pc' = "returned"
                             /\ exc' = exc
                        ELSE /\ ret' = ret
                             /\ pc' = "raised"
                             /\ exc' = "NotImplementedError: Location type"
    /\ op' = "getCoordinates"
    /\ UNCHANGED <<byteorder, nseis, seis, st, unpacked, resp, conv>>

-----------------------------------------------------------------------------
\* getPAZ, lines 291-303.

\* The external conversion obspy.fissures.util.poleZeroFilter2PAZ: a pure
\* function of the filter value.
poleZeroFilter2PAZ(v) == <<"PAZ", v>>

\* A plausible slip: every filter variant taken for a pole-zero filter.
AnyFilterVariant(filter) == TRUE

\* str(filter._d) == "POLEZERO"
IsPoleZero(filter) == filter.d = "POLEZERO"

\* resp.stages[0].filters[0]
FirstFilter(stages) == stages[1].filters[1]

\* stages[0] and filters[0] exist.
HasFirstFilter(stages) ==
    IF stages = <<>> THEN FALSE ELSE stages[1].filters # <<>>

\* stages[0] or filters[0] on an empty list.
GetPAZIndexError ==
    /\ pc = "idle"
    /\ \E stages \in Responses :
          /\ ~HasFirstFilter(stages)
          /\ resp' = [stages |-> stages]
    /\ exc' = "IndexError"
    /\ pc' = "raised"
    /\ op' = "getPAZ"
    /\ UNCHANGED <<byteorder, nseis, seis, st, unpacked, stations, ret, warns, conv>>

\* The first filter is not a pole-zero filter.
GetPAZRaise ==
    /\ pc = "idle"
    /\ \E stages \in Responses :
          /\ HasFirstFilter(stages)
          /\ ~IsPoleZero(FirstFilter(stages))
          /\ resp' = [stages |-> stages]
    /\ exc' = "Exception: Unexpected response type."
    /\ pc' = "raised"
    /\ op' = "getPAZ"
    /\ UNCHANGED <<byteorder, nseis, seis, st, unpacked, stations, ret, warns, conv>>

\* The first filter is a pole-zero filter: warn and convert its value.
GetPAZ ==
    /\ pc = "idle"
    /\ \E stages \in Responses :
          /\ HasFirstFilter(stages)
          /\ IsPoleZero(FirstFilter(stages))
          /\ resp' = [stages |-> stages]
          /\ conv' = Append(conv, FirstFilter(stages).v)
          /\ ret' = poleZeroFilter2PAZ(FirstFilter(stages).v)
    /\ warns' = Append(warns, <<"EXPERIMENTAL">>)
    /\ pc' = "returned"
    /\ op' = "getPAZ"
    /\ UNCHANGED <<byteorder, nseis, seis, st, unpacked, stations, exc>>

-----------------------------------------------------------------------------
Next ==
    \/ GetWaveformCall
    \/ LoopContinue
    \/ LoopAppend
    \/ LoopRaise
    \/ GetWaveformReturn
    \/ GetCoordinatesNoStation
    \/ GetCoordinates
    \/ GetPAZIndexError
    \/ GetPAZRaise
    \/ GetPAZ

Spec == Init /\ [][Next]_vars
-----------------------------------------------------------------------------
\* Properties of getWaveform.  They are stated on the records the loop has
\* visited (seis), the stream under construction (st), the value handed to
\* the caller (ret) and the log of codec calls (unpacked), in terms of the
\* fields of the records only.

\* The positions in s of the records with a nonzero sample count.
NonZeroIdx(s) ==
    SelectSeq([i \in 1..Len(s) |-> i], LAMBDA i : s[i].num_points # 0)

\* The record the k-th Trace of the stream comes from.
SourceOf(k) == seis[NonZeroIdx(seis)[k]]

EveryTraceHasSource == Len(st) <= Len(NonZeroIdx(seis))

\* What the codec returns for one chunk on this host.
DecodedChunk(chunk) ==
    UnpackSteim(IF chunk.compression = 11 THEN "unpack_steim2" ELSE "unpack_steim1",
                chunk.values, chunk.num_points, byteorder # chunk.byte_order)

\* The decoded outputs of chunks 1..n joined left to right.
RECURSIVE JoinedLeftToRight(_, _)
JoinedLeftToRight(chunks, n) ==
    IF n = 0 THEN <<>>
    ELSE JoinedLeftToRight(chunks, n - 1) \o DecodedChunk(chunks[n])

RECURSIVE SumOfCounts(_, _)
SumOfCounts(chunks, n) ==
    IF n = 0 THEN 0 ELSE SumOfCounts(chunks, n - 1) + chunks[n].num_points

SupportedCode(code) == code \in {10, 11}

BadChunkPositions(sei) ==
    { j \in 1..Len(sei.encoded_values) : ~SupportedCode(sei.encoded_values[j].compression) }

Minimum(S) == CHOOSE x \in S : \A y \in S : x <= y
Maximum(S) == CHOOSE x \in S : \A y \in S : x >= y

\* The record reaches the chunk loop: it holds samples, its unit is SECOND
\* and its interval is not zero.
ReachesChunkLoop(sei) ==
    /\ sei.num_points # 0
    /\ sei.interval.unit_base = "SECOND"
    /\ sei.interval.value[1] # 0
    /\ sei.interval.multi_factor # 0

CallsFor(i) == SelectSeq(unpacked, LAMBDA c : c.rec = i)

TracesBefore(i) == Len(NonZeroIdx(SubSeq(seis, 1, i - 1)))

\* C1: the sample array of every Trace is the decoded outputs of the chunks
\* of its record joined in the order of the chunks, so its length is the sum
\* of the chunks' sample counts; no chunk is dropped, doubled or moved.
C1_ChunksJoinedInOrder ==
    /\ EveryTraceHasSource
    /\ \A k \in 1..Len(st) :
          LET chunks == SourceOf(k).encoded_values
          IN  /\ st[k].data = JoinedLeftToRight(chunks, Len(chunks))
              /\ Len(st[k].data) = SumOfCounts(chunks, Len(chunks))

\* A Trace built from two different chunks whose counts sum to the sample
\* count of the record.
C1_Witness ==
    \E k \in 1..Len(st) :
        LET sei == SourceOf(k)
        IN  /\ Len(sei.encoded_values) = 2
            /\ sei.encoded_values[1] # sei.encoded_values[2]
            /\ Len(st[k].data) = 3

\* C2: a record with sample count 0 is skipped: none of its chunks reaches
\* the codec, it never ends the call with an error, whatever its unit,
\* interval and compression codes, and the stream holds one Trace per
\* record with a nonzero sample count only.
C2_KeepAliveSkipped ==
    /\ \A i \in 1..Len(seis) :
          seis[i].num_points = 0 =>
              /\ CallsFor(i) = <<>>
              /\ ~(pc = "raised" /\ i = Len(seis))
    /\ (op = "getWaveform" /\ pc = "loop") => Len(st) = Len(NonZeroIdx(seis))
    /\ (op = "getWaveform" /\ pc = "raised") => Len(st) = Len(NonZeroIdx(seis)) - 1
    /\ (op = "getWaveform" /\ pc = "returned") => Len(ret) = Len(NonZeroIdx(seis))

\* A call that returned one Trace after a keep-alive record with a unit
\* other than SECOND and an unsupported chunk.
C2_Witness ==
    /\ op = "getWaveform" /\ pc = "returned" /\ Len(ret) = 1
    /\ \E i \in 1..Len(seis) :
          /\ seis[i].num_points = 0
          /\ seis[i].interval.unit_base # "SECOND"
          /\ BadChunkPositions(seis[i]) # {}

\* The record fails on its unit or on a compression code.
FailsOnUnit(sei) == sei.num_points # 0 /\ sei.interval.unit_base # "SECOND"
FailsOnCodec(sei) == ReachesChunkLoop(sei) /\ BadChunkPositions(sei) # {}

\* C3 as claimed: the failure of one record does not abort the processing of
\* its sibling records, and the Traces of the valid records are handed to
\* the caller.
C3_SiblingsSurviveFailure ==
    (op = "getWaveform" /\ pc = "raised" /\ exc \in {"Exception: Wrong unit!",
                                                     "NotImplementedError: Compression"})
        => /\ Len(seis) = nseis
           /\ Len(st) > 0 => ret = st

\* C3 as amended: the failure of one record (unsupported unit or compression
\* code) raises out of getWaveform and ends the call: the failing record is
\* the last one visited and nothing is returned to the caller, not even the
\* Traces built for earlier records.
C3_FailureAbortsCall ==
    \A i \in 1..Len(seis) :
        (FailsOnUnit(seis[i]) \/ FailsOnCodec(seis[i])) =>
            /\ pc = "raised"
            /\ i = Len(seis)
            /\ ret = None
            /\ exc = IF FailsOnUnit(seis[i]) THEN "Exception: Wrong unit!"
                     ELSE "NotImplementedError: Compression"

\* A failure after a valid record whose Trace had been built.
C3_Witness ==
    /\ op = "getWaveform" /\ pc = "raised" /\ Len(st) = 1 /\ ret = None
    /\ FailsOnCodec(seis[Len(seis)])

\* C4: when the call returns, the stream holds one Trace per record with a
\* nonzero sample count, the k-th Trace built from the k-th such record;
\* records of one channel are not merged.
C4_OneTracePerRecordInOrder ==
    (op = "getWaveform" /\ pc = "returned") =>
        /\ Len(ret) = Len(NonZeroIdx(seis))
        /\ \A k \in 1..Len(ret) :
              LET sei == SourceOf(k)
              IN  /\ ret[k].npts = sei.num_points
                  /\ ret[k].starttime = <<"UTCDateTime", sei.begin_time>>
                  /\ ret[k].network = sei.channel_id.network_code
                  /\ ret[k].station = sei.channel_id.station_code
                  /\ ret[k].channel = sei.channel_id.channel_code
                  /\ Len(ret[k].data) = SumOfCounts(sei.encoded_values,
                                                    Len(sei.encoded_values))

\* Two records of the same channel returned as two different Traces.
C4_Witness ==
    /\ op = "getWaveform" /\ pc = "returned" /\ Len(ret) = 2
    /\ seis[1].channel_id = seis[2].channel_id
    /\ ret[1].npts # ret[2].npts

\* C5: a chunk with a compression code other than 10 and 11 makes the
\* decoding raise NotImplementedError: the chunks before it were decoded,
\* the chunk itself and the chunks after it never reach the codec, no Trace
\* is built for the record and nothing is returned.
C5_UnsupportedCodecRaises ==
    /\ \A i \in 1..Len(seis) :
          FailsOnCodec(seis[i]) =>
              /\ pc = "raised"
              /\ exc = "NotImplementedError: Compression"
              /\ i = Len(seis)
              /\ ret = None
              /\ Len(st) = TracesBefore(i)
              /\ Len(CallsFor(i)) = Minimum(BadChunkPositions(seis[i])) - 1
    /\ EveryTraceHasSource
    /\ \A k \in 1..Len(st) : BadChunkPositions(SourceOf(k)) = {}
    /\ \A c \in 1..Len(unpacked) : unpacked[c].fn \in {"unpack_steim1", "unpack_steim2"}

\* An unsupported chunk after a supported one.
C5_Witness ==
    /\ op = "getWaveform" /\ pc = "raised"
    /\ FailsOnCodec(seis[Len(seis)])
    /\ Minimum(BadChunkPositions(seis[Len(seis)])) = 2
    /\ Len(CallsFor(Len(seis))) = 1

\* C6: a record with a nonzero sample count and a unit other than SECOND
\* raises "Wrong unit!" whatever its value, power, multiplier and exponent
\* are: nothing is decoded, no Trace is built; a record in SECOND never
\* raises it.
C6_WrongUnitRaises ==
    \A i \in 1..Len(seis) :
        /\ FailsOnUnit(seis[i]) =>
              /\ pc = "raised"
              /\ exc = "Exception: Wrong unit!"
              /\ i = Len(seis)
              /\ ret = None
              /\ CallsFor(i) = <<>>
              /\ Len(st) = TracesBefore(i)
        /\ seis[i].interval.unit_base = "SECOND" =>
              ~(pc = "raised" /\ i = Len(seis) /\ exc = "Exception: Wrong unit!")

\* A record in another unit whose interval value is zero and whose exponent
\* is negative: the interval is never computed.
C6_Witness ==
    /\ op = "getWaveform" /\ pc = "raised" /\ exc = "Exception: Wrong unit!"
    /\ seis[Len(seis)].interval.value = <<0, 1>>
    /\ seis[Len(seis)].interval.exponent < 0

\* The descriptor {value: 0.02, unit_base: SECOND, power: 0, multiplier: 1,
\* exponent: 1}.
FiftyHertz(interval) ==
    /\ interval.value = <<1, 50>>
    /\ interval.unit_base = "SECOND"
    /\ interval.power = 0
    /\ interval.multi_factor = 1
    /\ interval.exponent = 1

\* C7 as claimed: with that descriptor the rate of the Trace is 50.0 for
\* every positive sample count.
C7_RateIsFifty ==
    /\ EveryTraceHasSource
    /\ \A k \in 1..Len(st) :
          FiftyHertz(SourceOf(k).interval) => st[k].sampling_rate = <<50, 1>>

\* C7 as amended: with that descriptor the rate of the Trace is the sample
\* count of the record divided by 0.02, that is 50 times the sample count.
C7_RateIsCountOverInterval ==
    /\ EveryTraceHasSource
    /\ \A k \in 1..Len(st) :
          FiftyHertz(SourceOf(k).interval) =>
              st[k].sampling_rate = <<50 * SourceOf(k).num_points, 1>>

\* A Trace of two samples with that descriptor.
C7_Witness ==
    \E k \in 1..Len(st) :
        /\ FiftyHertz(SourceOf(k).interval)
        /\ SourceOf(k).num_points = 2
        /\ st[k].sampling_rate = <<100, 1>>

NonBlank(s) == { i \in 1..Len(s) : s[i] \notin {" ", "\t", "\n"} }

TrailingRemoved(s) ==
    IF NonBlank(s) = {} THEN <<>> ELSE SubSeq(s, 1, Maximum(NonBlank(s)))

LeadingAndTrailingRemoved(s) ==
    IF NonBlank(s) = {} THEN <<>>
    ELSE SubSeq(s, Minimum(NonBlank(s)), Maximum(NonBlank(s)))

CodesVerbatim(tr, sei) ==
    /\ tr.network = sei.channel_id.network_code
    /\ tr.station = sei.channel_id.station_code
    /\ tr.channel = sei.channel_id.channel_code

\* C10 as claimed: network, station and channel codes are the record's, and
\* the location is the site code with only its trailing whitespace removed.
C10_LocationRightTrimmed ==
    /\ EveryTraceHasSource
    /\ \A k \in 1..Len(st) :
          /\ CodesVerbatim(st[k], SourceOf(k))
          /\ st[k].location = TrailingRemoved(SourceOf(k).channel_id.site_code)

\* C10 as amended: network, station and channel codes are the record's, and
\* the location is the site code with its leading and its trailing
\* whitespace removed; inner characters are kept.
C10_LocationStripped ==
    /\ EveryTraceHasSource
    /\ \A k \in 1..Len(st) :
          /\ CodesVerbatim(st[k], SourceOf(k))
          /\ st[k].location =
                 LeadingAndTrailingRemoved(SourceOf(k).channel_id.site_code)

\* A Trace whose site code " 0 " became the location "0".
C10_Witness ==
    \E k \in 1..Len(st) :
        /\ SourceOf(k).channel_id.site_code = <<" ", "0", " ">>
        /\ st[k].location = <<"0">>

-----------------------------------------------------------------------------
\* Properties of getCoordinates and getPAZ, stated on the inputs kept in
\* stations and resp.

\* The positions of the stations that match the request.
Matches ==
    { i \in 1..Len(stations.list) :
        /\ stations.list[i].station_code = stations.station_id
        /\ stations.list[i].start_time < stations.datetime
        /\ stations.datetime < stations.list[i].end_time }

TheLocation == stations.list[CHOOSE i \in Matches : TRUE].my_location

\* C8: on the one matching station getCoordinates raises exactly when the
\* location type is not GEOGRAPHIC, whatever the elevation unit; for a
\* GEOGRAPHIC location it returns latitude, longitude and the elevation
\* value as it is, with one warning when the unit is not METER and none
\* when it is.
C8_CoordinatesOfGeographic ==
    (op = "getCoordinates" /\ Cardinality(Matches) = 1) =>
        /\ pc = "raised" <=> TheLocation.type # "GEOGRAPHIC"
        /\ TheLocation.type = "GEOGRAPHIC" =>
              /\ pc = "returned"
              /\ ret = [latitude |-> TheLocation.latitude,
                        longitude |-> TheLocation.longitude,
                        elevation |-> TheLocation.elevation.value]
              /\ Len(warns) = IF TheLocation.elevation.unit = "METER" THEN 0 ELSE 1

\* A GEOGRAPHIC location with its elevation in feet.
C8_Witness ==
    /\ op = "getCoordinates" /\ pc = "returned"
    /\ Cardinality(Matches) = 1
    /\ TheLocation.elevation.unit = "FOOT"
    /\ ret.elevation = 1640
    /\ Len(warns) = 1

\* C9: getPAZ looks at the first filter of the first stage: when its
\* discriminant is not POLEZERO it raises and the conversion is never
\* called; when it is POLEZERO the conversion is called once, on the value
\* of that filter.
C9_PoleZeroOnly ==
    (op = "getPAZ" /\ resp.stages # <<>>) =>
        (resp.stages[1].filters # <<>> =>
            LET f == resp.stages[1].filters[1]
            IN  /\ f.d # "POLEZERO" =>
                      /\ pc = "raised"
                      /\ exc = "Exception: Unexpected response type."
                      /\ conv = <<>>
                      /\ ret = None
                /\ f.d = "POLEZERO" =>
                      /\ pc = "returned"
                      /\ conv = <<f.v>>)

\* A stage whose first filter is a list filter and whose second filter is a
\* pole-zero filter.
C9_Witness ==
    /\ op = "getPAZ" /\ pc = "raised" /\ conv = <<>>
    /\ resp.stages # <<>>
    /\ Len(resp.stages[1].filters) = 2
    /\ resp.stages[1].filters[1].d = "LIST"
    /\ resp.stages[1].filters[2].d = "POLEZERO"
====
